---- MODULE Spec2Model ----
(***************************************************************************)
(* A model of uri::URI (include/uri/URI.h) and of the element predicates   *)
(* of include/uri/elements_checks.h.                                       *)
(*                                                                         *)
(* A std::string is a sequence of bytes, a byte is a one-character TLA+    *)
(* string (NUL and SOH stand for the bytes 0 and 1).  A std::string_view   *)
(* is a record [off, len]: the offset of its first byte from uri_.data()   *)
(* and its size.  The default view strv{} is NullView.                     *)
(***************************************************************************)
EXTENDS Integers, Sequences, FiniteSets, TLC

\* ------------------------------------------------------------------ bounds
MaxLen == 5        \* longest text handed to the constructor
MaxMutLen == 4     \* longest text of a value that is then mutated
MaxSets == 2       \* most setScheme calls on one value
MaxOctetLen == 3   \* longest digit-rich argument of the element predicates
MaxIPv4Len == 8    \* longest dotted argument of the element predicates
MaxNameLen == 4    \* longest percent-rich argument of the element predicates
MaxLiteralLen == 5 \* longest URI given to the constructor with a bracketed host
MaxIterations == 16 \* iterations of the loop of parse() that are followed

\* ------------------------------------------------------------------- bytes
NUL == "NUL"
SOH == "SOH"

Alphabet == {"a", ":", "/", "?", "#", "@", "&", "="}
MutAlphabet == Alphabet \cup {SOH}
OctetAlphabet == {"0", "1", "2", "5", "6", "9", "a", "."}
IPv4Alphabet == {"0", "1", ".", "a"}
LiteralAlphabet == {"[", "]", ":", "a", "/", "?", "#"}
NameAlphabet == {"%", "a", "1", "g", "/", "!"}
NewSchemes == {<<"f">>, <<"w", "s">>}

\* the value of a byte as a char
CharCode(c) ==
    CASE c = NUL -> 0
      [] c = SOH -> 1
      [] c = "!" -> 33
      [] c = "%" -> 37
      [] c = "#" -> 35
      [] c = "&" -> 38
      [] c = "." -> 46
      [] c = "/" -> 47
      [] c = "0" -> 48
      [] c = "1" -> 49
      [] c = "2" -> 50
      [] c = "5" -> 53
      [] c = "6" -> 54
      [] c = "9" -> 57
      [] c = ":" -> 58
      [] c = "=" -> 61
      [] c = "?" -> 63
      [] c = "@" -> 64
      [] c = "a" -> 97
      [] c = "[" -> 91
      [] c = "]" -> 93
      [] c = "f" -> 102
      [] c = "g" -> 103
      [] c = "s" -> 115
      [] c = "w" -> 119

Strings(A, n) == UNION {[1..k -> A] : k \in 0..n}

Min(a, b) == IF a < b THEN a ELSE b
Max(a, b) == IF a > b THEN a ELSE b
SetMin(S) == CHOOSE x \in S : \A y \in S : x <= y
SetMax(S) == CHOOSE x \in S : \A y \in S : x >= y

\* std::string_view::npos, the largest size_t (here: larger than any size)
NPOS == 2147483647

\* ----------------------------------------------------- std::string_view
\* s.find(pat, from): position of the first occurrence at or after from
Find(s, pat, from) ==
    LET hits == {i \in from..(Len(s) - Len(pat)) : SubSeq(s, i + 1, i + Len(pat)) = pat}
    IN  IF hits = {} THEN NPOS ELSE SetMin(hits)

\* s.find_first_of(chars)
FindFirstOf(s, chars) ==
    LET hits == {i \in 0..(Len(s) - 1) : s[i + 1] \in chars}
    IN  IF hits = {} THEN NPOS ELSE SetMin(hits)

\* s.find_last_of(chars)
FindLastOf(s, chars) ==
    LET hits == {i \in 0..(Len(s) - 1) : s[i + 1] \in chars}
    IN  IF hits = {} THEN NPOS ELSE SetMax(hits)

\* s.substr(pos, n) on a sequence, pos <= size
Substr(s, pos, n) == SubSeq(s, pos + 1, pos + Min(n, Len(s) - pos))

View(off, len) == [off |-> off, len |-> len]
NullView == View(0, 0)
\* v.substr(pos, n), v.substr(pos) and v.remove_prefix(n) on a view
SubView(v, pos, n) == View(v.off + pos, Min(n, v.len - pos))
SubViewFrom(v, pos) == View(v.off + pos, v.len - pos)
RemovePrefix(v, n) == View(v.off + n, v.len - n)

RECURSIVE Concat(_)
Concat(ss) == IF ss = <<>> THEN <<>> ELSE Head(ss) \o Concat(Tail(ss))

\* ------------------------------------------------------- character checks
is_alpha(c) ==
    \/ CharCode(c) >= 65 /\ CharCode(c) <= 90
    \/ CharCode(c) >= 97 /\ CharCode(c) <= 122

is_digit(c) == CharCode(c) >= CharCode("0") /\ CharCode(c) <= CharCode("9")

is_hex_digit(c) ==
    \/ is_digit(c)
    \/ CharCode(c) >= 65 /\ CharCode(c) <= 70
    \/ CharCode(c) >= 97 /\ CharCode(c) <= 102

is_unreserved(c) == is_alpha(c) \/ is_digit(c) \/ c \in {"-", ".", "_", "~"}

is_subdelimiter(c) == c \in {"!", "$", "&", "'", "(", ")", "*", "+", ",", ";", "="}

\* ---------------------------------------------------------- element checks
\* element[i] - '0'
DigitValue(c) == CharCode(c) - CharCode("0")

is_decimal_octet(e) ==
    CASE Len(e) = 0 -> FALSE
      [] Len(e) = 1 ->
            LET value == IF is_digit(e[1]) THEN DigitValue(e[1]) ELSE 0
            IN  value > 0
      [] Len(e) = 2 ->
            LET value == IF is_digit(e[1]) /\ is_digit(e[2])
                         THEN DigitValue(e[1]) * 10 + DigitValue(e[2]) ELSE 0
            IN  value >= 10 /\ value < 100
      [] Len(e) = 3 ->
            LET value == IF is_digit(e[1]) /\ is_digit(e[2]) /\ is_digit(e[3])
                         THEN DigitValue(e[1]) * 100 + DigitValue(e[2]) * 10 + DigitValue(e[3])
                         ELSE 0
            IN  value >= 100 /\ value < 256
      [] OTHER -> FALSE

\* the for loop of is_IPv4 from index i: how it is left (done: by return false)
RECURSIVE IPv4Scan(_, _, _, _, _)
IPv4Scan(e, i, idx, last, octet) ==
    IF ~(i < Len(e) /\ idx < 4)
    THEN [done |-> FALSE, i |-> i, idx |-> idx, last |-> last, octet |-> octet]
    ELSE IF e[i + 1] = "."
         THEN IPv4Scan(e, i + 1, idx + 1, i + 1,
                       [octet EXCEPT ![idx] = Substr(e, last, i - last)])
         ELSE IF ~is_digit(e[i + 1])
              THEN [done |-> TRUE, i |-> i, idx |-> idx, last |-> last, octet |-> octet]
              ELSE IPv4Scan(e, i + 1, idx, last, octet)

\* the identifier `entity` of the final capture is read as the parameter
is_IPv4(e) ==
    LET scan == IPv4Scan(e, 0, 0, 0, [k \in 0..3 |-> <<>>])
        final == IF scan.i = Len(e) /\ scan.idx # 4
                 THEN [idx |-> scan.idx + 1,
                       octet |-> [scan.octet EXCEPT
                                     ![scan.idx] = Substr(e, scan.last, Len(e) - scan.last)]]
                 ELSE [idx |-> scan.idx, octet |-> scan.octet]
    IN  IF scan.done
        THEN FALSE
        ELSE final.idx = 4 /\ \A k \in 0..3 : is_decimal_octet(final.octet[k])

\* a - b in size_t: below zero the difference wraps round to the top of the range
SizeMinus(a, b) == IF a >= b THEN a - b ELSE NPOS + (a - b + 1)

\* the for loop of is_regular_name from index i over the memory mem, of which the
\* first size bytes are the view: the value returned and the last byte read
\* through operator[] in the percent branch (counted from 1, 0: none)
RECURSIVE RegularNameScan(_, _, _)
RegularNameScan(mem, size, i) ==
    IF ~(i < size)
    THEN [value |-> TRUE, top |-> 0]
    ELSE IF is_unreserved(mem[i + 1]) \/ is_subdelimiter(mem[i + 1])
         THEN RegularNameScan(mem, size, i + 1)
         ELSE IF mem[i + 1] = "%" /\ i < SizeMinus(size, 2)
              THEN IF ~is_hex_digit(mem[i + 2])
                   THEN [value |-> FALSE, top |-> i + 2]
                   ELSE IF ~is_hex_digit(mem[i + 3])
                        THEN [value |-> FALSE, top |-> i + 3]
                        ELSE LET r == RegularNameScan(mem, size, i + 3)
                             IN  [value |-> r.value, top |-> Max(i + 3, r.top)]
              ELSE [value |-> FALSE, top |-> 0]

\* is_regular_name on the view e, where the bytes `after` follow it in memory
is_regular_name(e, after) ==
    IF e = <<>> THEN TRUE ELSE RegularNameScan(e \o after, Len(e), 0).value

\* is_regular_name(e) indexes the view behind its last byte
ReadsPastEnd(e) == e # <<>> /\ RegularNameScan(e \o <<NUL, NUL>>, Len(e), 0).top > Len(e)

\* ------------------------------------------------------------------- state
VARIABLES
    uri_,             \* std::string uri_
    isAbsolutePath_,  \* bool isAbsolutePath_
    scheme_, user_, host_, port_, path_, queryLine_, fragment_,   \* the views
    pathSegments_,    \* std::vector<strv>, a sequence of views
    queries_,         \* std::map<strv, strv>, a set of [key, value] texts, keys unique
    uriView,          \* parse(): the cursor
    step,             \* parse(): ParsingSteps step
    outcome,          \* where the constructor stands / how it ended
    beyond,           \* the bytes that lie in memory after uri_'s terminating NUL
    lastOp,           \* the last member function called on the constructed value
    nSets,            \* number of setScheme calls made
    prevUri,          \* string() as it was before the last setScheme call
    prevScheme,       \* scheme() as it was before the last setScheme call
    newScheme,        \* the argument of the last setScheme call
    rawPath,          \* the argument tryParsePath was called with
    rawAuthority,     \* the argument tryParseAuthority was called with
    hashAt,           \* offset in uri_ of the '#' that led to Fragment, NPOS: none
    iterations,       \* iterations of the while loop of parse() so far
    element,          \* the argument of the element predicates
    past,             \* the bytes that lie in memory after the last byte of element
    verdict           \* what the last element predicate called returned

uriVars == <<uri_, isAbsolutePath_, scheme_, user_, host_, port_, path_, queryLine_,
             fragment_, pathSegments_, queries_>>
parseVars == <<uriView, step, outcome, rawPath, rawAuthority, hashAt, iterations>>
callVars == <<beyond, lastOp, nSets, prevUri, prevScheme, newScheme>>
elementVars == <<element, past, verdict>>
vars == <<uriVars, parseVars, callVars, elementVars>>

\* what a read through a view returns: the bytes of uri_, then its terminator,
\* then whatever lies behind it
Memory == uri_ \o <<NUL>> \o beyond
Text(v) == SubSeq(Memory, v.off + 1, v.off + v.len)

\* std::nullopt: no text, told apart from every sequence of bytes
None == <<"nullopt">>
Optional(v) == IF v.len = 0 THEN None ELSE Text(v)

\* ---------------------------------------------------------------- accessors
scheme == Optional(scheme_)
user == Optional(user_)
host == Optional(host_)
port == Text(port_)
path == Optional(path_)
queryLine == Optional(queryLine_)
queries == IF queries_ = {} THEN None ELSE queries_
fragment == Optional(fragment_)
hasAuthority == host # None
hasPath == path # None
isAbsolutePath == isAbsolutePath_
string == uri_

\* ------------------------------------------------------------- sub-parsers
SCHEME_SEP == <<":">>
AUTH_ANON == <<"/", "/">>
USER_SEP == <<"@">>
PORT_SEP == <<":">>
PATH_SEP == <<"/">>
QUERY_ANON == <<"?">>
QUERY_SEP == <<"&">>
FRAG_SEP == <<"#">>
KV_SEP == <<"=">>

tryParseScheme(uri) ==
    LET schemeSeparatorPosition == Find(Text(uri), SCHEME_SEP \o AUTH_ANON, 0)
    IN  IF schemeSeparatorPosition # NPOS
        THEN LET sch == SubView(uri, 0, schemeSeparatorPosition)
             IN  [scheme_ |-> sch, uri |-> RemovePrefix(uri, sch.len + Len(SCHEME_SEP))]
        ELSE [scheme_ |-> scheme_, uri |-> uri]

\* tryParseUser, but the user text is consumed without being stored
tryParseUser_userNotStored(uri) ==
    LET userSeparatorPosition == Find(Text(uri), USER_SEP, 0)
    IN  IF userSeparatorPosition # NPOS
        THEN IF userSeparatorPosition = 0
             THEN [throws |-> TRUE, user_ |-> user_, uri |-> uri]
             ELSE [throws |-> FALSE, user_ |-> user_,
                   uri |-> RemovePrefix(uri, userSeparatorPosition + Len(USER_SEP))]
        ELSE [throws |-> FALSE, user_ |-> user_, uri |-> uri]

tryParseUser(uri) ==
    LET userSeparatorPosition == Find(Text(uri), USER_SEP, 0)
    IN  IF userSeparatorPosition # NPOS
        THEN IF userSeparatorPosition = 0
             THEN [throws |-> TRUE, user_ |-> user_, uri |-> uri]
             ELSE LET usr == SubView(uri, 0, userSeparatorPosition)
                  IN  [throws |-> FALSE, user_ |-> usr,
                       uri |-> RemovePrefix(uri, usr.len + Len(USER_SEP))]
        ELSE [throws |-> FALSE, user_ |-> user_, uri |-> uri]

tryParseHost(uri) ==
    LET portSeparatorPosition == FindLastOf(Text(uri), {PORT_SEP[1]})
    IN  IF portSeparatorPosition # NPOS
        THEN LET hst == SubView(uri, 0, portSeparatorPosition)
                 prt == SubViewFrom(uri, portSeparatorPosition + 1)
             IN  [host_ |-> hst, port_ |-> prt,
                  uri |-> RemovePrefix(uri, hst.len + Len(PORT_SEP) + prt.len)]
        ELSE [host_ |-> uri, port_ |-> port_, uri |-> RemovePrefix(uri, uri.len)]

tryParseAuthority(uri) ==
    LET pos == FindFirstOf(Text(uri), {PATH_SEP[1], FRAG_SEP[1], QUERY_ANON[1]})
        authority == IF pos # NPOS THEN SubView(uri, 0, pos) ELSE uri
        initialAuthSize == authority.len
        u == tryParseUser(authority)
        h == IF u.uri.len # 0
             THEN tryParseHost(u.uri)
             ELSE [host_ |-> host_, port_ |-> port_, uri |-> u.uri]
    IN  IF u.throws
        THEN [throws |-> TRUE, user_ |-> user_, host_ |-> host_, port_ |-> port_, uri |-> uri]
        ELSE [throws |-> FALSE, user_ |-> u.user_, host_ |-> h.host_, port_ |-> h.port_,
              uri |-> RemovePrefix(uri, initialAuthSize)]

\* SplitSegments, but a segment is emplaced without its separator (pos, not pos + 1)
RECURSIVE SplitSegments_separatorLeftOut(_)
SplitSegments_separatorLeftOut(pathView) ==
    IF pathView.len = 0
    THEN <<>>
    ELSE LET pos == Find(Text(pathView), PATH_SEP, 0)
         IN  IF pos # NPOS
             THEN <<View(pathView.off, pos)>>
                      \o SplitSegments_separatorLeftOut(RemovePrefix(pathView, pos + 1))
             ELSE <<pathView>>

\* the segmentation loop of tryParsePath: the views emplaced for pathView
RECURSIVE SplitSegments(_)
SplitSegments(pathView) ==
    IF pathView.len = 0
    THEN <<>>
    ELSE LET pos == Find(Text(pathView), PATH_SEP, 0)
         IN  IF pos # NPOS
             THEN <<View(pathView.off, pos + 1)>> \o SplitSegments(RemovePrefix(pathView, pos + 1))
             ELSE <<pathView>>

\* ub: uri.front() is called on an empty view
tryParsePath(uri) ==
    LET u1 == IF hasAuthority THEN RemovePrefix(uri, Len(PATH_SEP)) ELSE uri
        pos == FindFirstOf(Text(u1), {QUERY_ANON[1], FRAG_SEP[1]})
        pth == IF pos # NPOS THEN SubView(u1, 0, pos) ELSE u1
        front == Memory[u1.off + 1]
    IN  [ub |-> u1.len = 0,
         path_ |-> pth,
         isAbsolutePath_ |-> IF front = PATH_SEP[1] THEN TRUE ELSE isAbsolutePath_,
         pathSegments_ |-> pathSegments_ \o SplitSegments(pth),
         uri |-> RemovePrefix(u1, pth.len)]

tryParseFragment(uri) ==
    LET u1 == RemovePrefix(uri, Len(FRAG_SEP))
        frg == SubViewFrom(u1, 0)
    IN  [fragment_ |-> frg, uri |-> RemovePrefix(u1, frg.len)]

\* queries_.emplace(key, value): the first entry of a key stays
Emplace(qs, key, value) ==
    IF \E q \in qs : q.key = key THEN qs ELSE qs \cup {[key |-> key, value |-> value]}

\* the loop of tryParseQuery over queryView, from the map qs
RECURSIVE SplitQuery(_, _)
SplitQuery(queryView, qs) ==
    IF queryView.len = 0
    THEN [throws |-> FALSE, queries_ |-> qs]
    ELSE LET pos == Find(Text(queryView), QUERY_SEP, 0)
             queryPiece == IF pos # NPOS THEN Text(SubView(queryView, 0, pos))
                                         ELSE Text(queryView)
             equal == Find(queryPiece, KV_SEP, 0)
             added == Emplace(qs, Substr(queryPiece, 0, equal),
                              Substr(queryPiece, equal + 1, Len(queryPiece) - (equal + 1)))
         IN  IF equal = NPOS
             THEN [throws |-> TRUE, queries_ |-> qs]
             ELSE IF pos # NPOS
                  THEN SplitQuery(RemovePrefix(queryView, pos + Len(QUERY_SEP)), added)
                  ELSE [throws |-> FALSE, queries_ |-> added]

tryParseQuery(uri) ==
    LET pos == Find(Text(uri), FRAG_SEP, 0)
        ql == IF pos # NPOS THEN SubView(uri, 0, pos) ELSE uri
        q == SplitQuery(ql, queries_)
    IN  [throws |-> q.throws, queryLine_ |-> ql, queries_ |-> q.queries_,
         uri |-> RemovePrefix(uri, ql.len)]

\* ------------------------------------------------------------ construction
NoVerdict == [fn |-> "none", value |-> FALSE]

\* the members as their default initialisers leave them
DefaultMembers ==
    /\ isAbsolutePath_ = FALSE
    /\ scheme_ = NullView /\ user_ = NullView /\ host_ = NullView /\ port_ = NullView
    /\ path_ = NullView /\ queryLine_ = NullView /\ fragment_ = NullView
    /\ pathSegments_ = <<>>
    /\ queries_ = {}

\* parse() has not run an iteration yet
NoTrace ==
    /\ rawPath = NullView /\ rawAuthority = NullView /\ hashAt = NPOS /\ iterations = 0

NoCalls ==
    /\ beyond = <<>> /\ lastOp = "none" /\ nSets = 0
    /\ prevUri = <<>> /\ prevScheme = None /\ newScheme = <<>>

\* URI(std::string const& uri): uri_ is initialised, parse() is entered
Init ==
    /\ uri_ \in Strings(Alphabet, MaxLen)
    /\ DefaultMembers
    /\ uriView = View(0, Len(uri_))
    /\ step = "Scheme"
    /\ outcome = "Parsing"
    /\ NoTrace
    /\ NoCalls
    /\ element = <<>> /\ past = <<>> /\ verdict = NoVerdict

\* ------------------------------------------------------------------ parse()
ParsingSteps ==
    {"Scheme", "CheckAuthority", "Authority", "CheckSeparator", "Path", "Query", "Fragment"}

InLoop(s) ==
    /\ outcome = "Parsing" /\ uri_ # <<>> /\ uriView.len # 0 /\ step = s
    /\ iterations < MaxIterations

ParseEmpty ==
    /\ outcome = "Parsing" /\ uri_ = <<>>
    /\ outcome' = "EmptyURI"
    /\ UNCHANGED <<uriVars, uriView, step, rawPath, rawAuthority, hashAt, iterations,
                   callVars, elementVars>>

ParseReturn ==
    /\ outcome = "Parsing" /\ uri_ # <<>> /\ uriView.len = 0
    /\ outcome' = "NoError"
    /\ UNCHANGED <<uriVars, uriView, step, rawPath, rawAuthority, hashAt, iterations,
                   callVars, elementVars>>

StepScheme ==
    /\ InLoop("Scheme")
    /\ LET r == tryParseScheme(uriView)
       IN  /\ scheme_' = r.scheme_
           /\ uriView' = r.uri
    /\ step' = "CheckAuthority"
    /\ iterations' = iterations + 1
    /\ UNCHANGED <<uri_, isAbsolutePath_, user_, host_, port_, path_, queryLine_, fragment_,
                   pathSegments_, queries_, outcome, rawPath, rawAuthority, hashAt,
                   callVars, elementVars>>

\* the condition under which CheckAuthority goes on to Authority
EntersAuthority(authAnon, nxtPathSep) ==
    \/ authAnon # <<>>
    \/ nxtPathSep > 0
    \/ nxtPathSep = NPOS
    \/ SubViewFrom(uriView, nxtPathSep).len = 0

StepCheckAuthority ==
    /\ InLoop("CheckAuthority")
    /\ LET authAnon == IF uriView.len > Len(AUTH_ANON)
                          /\ Text(SubView(uriView, 0, Len(AUTH_ANON))) = AUTH_ANON
                       THEN AUTH_ANON ELSE <<>>
           nxtPathSep == Find(Text(uriView), PATH_SEP, Len(authAnon))
       IN  IF EntersAuthority(authAnon, nxtPathSep)
           THEN /\ step' = "Authority"
                /\ uriView' = IF authAnon # <<>> THEN RemovePrefix(uriView, Len(AUTH_ANON))
                                                 ELSE uriView
           ELSE /\ step' = "CheckSeparator"
                /\ uriView' = uriView
    /\ iterations' = iterations + 1
    /\ UNCHANGED <<uriVars, outcome, rawPath, rawAuthority, hashAt, callVars, elementVars>>

StepAuthority ==
    /\ InLoop("Authority")
    /\ rawAuthority' = uriView
    /\ iterations' = iterations + 1
    /\ LET r == tryParseAuthority(uriView)
       IN  /\ user_' = r.user_ /\ host_' = r.host_ /\ port_' = r.port_
           /\ uriView' = r.uri
           /\ IF r.throws
              THEN outcome' = "MalformedUser" /\ step' = step
              ELSE outcome' = outcome /\ step' = "CheckSeparator"
    /\ UNCHANGED <<uri_, isAbsolutePath_, scheme_, path_, queryLine_, fragment_,
                   pathSegments_, queries_, rawPath, hashAt, callVars, elementVars>>

StepCheckSeparator ==
    /\ InLoop("CheckSeparator")
    /\ LET front == Text(uriView)[1]
       IN  IF front = PATH_SEP[1]
           THEN step' = "Path" /\ uriView' = uriView /\ hashAt' = hashAt
           ELSE IF front = QUERY_ANON[1]
                THEN /\ step' = "Query"
                     /\ uriView' = RemovePrefix(uriView, Len(QUERY_ANON))
                     /\ hashAt' = hashAt
                ELSE /\ step' = "Fragment"
                     /\ uriView' = RemovePrefix(uriView, Len(FRAG_SEP))
                     /\ hashAt' = uriView.off
    /\ iterations' = iterations + 1
    /\ UNCHANGED <<uriVars, outcome, rawPath, rawAuthority, callVars, elementVars>>

\* uri.front() on an empty view is undefined: the read returns the terminator of
\* uri_ (no '/'), or the library's precondition check ends the program
StepPath ==
    /\ InLoop("Path")
    /\ rawPath' = uriView
    /\ iterations' = iterations + 1
    /\ LET r == tryParsePath(uriView)
       IN  /\ path_' = r.path_
           /\ \/ /\ isAbsolutePath_' = r.isAbsolutePath_
                 /\ pathSegments_' = r.pathSegments_
                 /\ uriView' = r.uri
                 /\ outcome' = outcome /\ step' = "CheckSeparator"
              \/ /\ r.ub
                 /\ outcome' = "Aborted"
                 /\ UNCHANGED <<isAbsolutePath_, pathSegments_, uriView, step>>
    /\ UNCHANGED <<uri_, scheme_, user_, host_, port_, queryLine_, fragment_, queries_,
                   rawAuthority, hashAt, callVars, elementVars>>

StepQuery ==
    /\ InLoop("Query")
    /\ LET r == tryParseQuery(uriView)
       IN  /\ queryLine_' = r.queryLine_
           /\ queries_' = r.queries_
           /\ IF r.throws
              THEN /\ outcome' = "MalformedQuery" /\ step' = step /\ uriView' = uriView
                   /\ hashAt' = hashAt
              ELSE /\ outcome' = outcome /\ step' = "Fragment" /\ uriView' = r.uri
                   /\ hashAt' = IF r.uri.len # 0 THEN r.uri.off ELSE hashAt
    /\ iterations' = iterations + 1
    /\ UNCHANGED <<uri_, isAbsolutePath_, scheme_, user_, host_, port_, path_, fragment_,
                   pathSegments_, rawPath, rawAuthority, callVars, elementVars>>

StepFragment ==
    /\ InLoop("Fragment")
    /\ LET r == tryParseFragment(uriView)
       IN  /\ fragment_' = r.fragment_
           /\ uriView' = r.uri
    /\ iterations' = iterations + 1
    /\ UNCHANGED <<uri_, isAbsolutePath_, scheme_, user_, host_, port_, path_, queryLine_,
                   pathSegments_, queries_, step, outcome, rawPath, rawAuthority, hashAt,
                   callVars, elementVars>>

Parse ==
    \/ ParseEmpty
    \/ ParseReturn
    \/ StepScheme
    \/ StepCheckAuthority
    \/ StepAuthority
    \/ StepCheckSeparator
    \/ StepPath
    \/ StepQuery
    \/ StepFragment

\* ---------------------------------------------------------------- mutators
Constructed == outcome \in {"NoError", "EmptyURI"}

\* uri_.replace(pos, n, str) for pos <= uri_.size()
Replace(str, pos, n, by) ==
    SubSeq(str, 1, pos) \o by \o SubSeq(str, pos + Min(n, Len(str) - pos) + 1, Len(str))

\* the bytes a view of n bytes at uri_.c_str() reads behind the terminator of str
Behind(str, n) == [1..Max(0, n - Len(str) - 1) -> MutAlphabet \cup {NUL}]

\* setScheme: the text of uri_ after the call, or "out_of_range" when replace throws
setSchemeText(new) ==
    IF scheme # None
    THEN LET pos == CharCode(Text(scheme_)[1])
         IN  IF pos > Len(uri_) THEN "out_of_range"
                                ELSE Replace(uri_, pos, scheme_.len, new)
    ELSE uri_ \o Substr(new \o SCHEME_SEP, Len(new \o SCHEME_SEP), 0)

SetScheme(new) ==
    /\ Constructed
    /\ nSets < MaxSets
    /\ nSets' = nSets + 1
    /\ prevUri' = string /\ prevScheme' = scheme /\ newScheme' = new
    /\ LET text == setSchemeText(new)
       IN  IF text = "out_of_range"
           THEN /\ lastOp' = "setScheme threw"
                /\ UNCHANGED <<uriVars, beyond>>
           ELSE /\ lastOp' = "setScheme"
                /\ uri_' = text
                /\ scheme_' = View(0, Len(new))
                /\ beyond' \in Behind(text, Len(new))
                /\ UNCHANGED <<isAbsolutePath_, user_, host_, port_, path_, queryLine_,
                               fragment_, pathSegments_, queries_>>
    /\ UNCHANGED <<parseVars, elementVars>>

Clear ==
    /\ Constructed
    /\ scheme_' = NullView /\ user_' = NullView /\ host_' = NullView /\ port_' = NullView
    /\ path_' = NullView /\ fragment_' = NullView /\ queryLine_' = NullView
    /\ pathSegments_' = <<>>
    /\ queries_' = {}
    /\ uri_' = <<>>
    /\ lastOp' = "clear"
    /\ beyond' = <<>>
    /\ UNCHANGED <<isAbsolutePath_, nSets, prevUri, prevScheme, newScheme,
                   parseVars, elementVars>>

Next == Parse

Spec == Init /\ [][Next]_vars

\* a value is constructed and then mutated
InitMut ==
    /\ uri_ \in Strings(MutAlphabet, MaxMutLen)
    /\ DefaultMembers
    /\ uriView = View(0, Len(uri_))
    /\ step = "Scheme"
    /\ outcome = "Parsing"
    /\ NoTrace
    /\ NoCalls
    /\ element = <<>> /\ past = <<>> /\ verdict = NoVerdict

NextMut ==
    \/ Parse
    \/ \E new \in NewSchemes : SetScheme(new)
    \/ Clear

SpecMut == InitMut /\ [][NextMut]_vars

\* a value is constructed from a text that may hold a bracketed host
InitLiteral ==
    /\ uri_ \in Strings(LiteralAlphabet, MaxLiteralLen)
    /\ DefaultMembers
    /\ uriView = View(0, Len(uri_))
    /\ step = "Scheme"
    /\ outcome = "Parsing"
    /\ NoTrace
    /\ NoCalls
    /\ element = <<>> /\ past = <<>> /\ verdict = NoVerdict

SpecLiteral == InitLiteral /\ [][Next]_vars

\* ------------------------------------------------- the element predicates
\* a default-constructed URI; the predicates are called on any argument
InitElements ==
    /\ uri_ = <<>>
    /\ DefaultMembers
    /\ uriView = NullView
    /\ step = "Scheme"
    /\ outcome = "Default"
    /\ NoTrace
    /\ NoCalls
    /\ element \in Strings(OctetAlphabet, MaxOctetLen) \cup Strings(IPv4Alphabet, MaxIPv4Len)
                    \cup Strings(NameAlphabet, MaxNameLen)
    /\ past = <<>>
    /\ verdict = NoVerdict

CallDecimalOctet ==
    /\ verdict' = [fn |-> "is_decimal_octet", value |-> is_decimal_octet(element)]
    /\ UNCHANGED <<uriVars, parseVars, callVars, element, past>>

CallIPv4 ==
    /\ verdict' = [fn |-> "is_IPv4", value |-> is_IPv4(element)]
    /\ UNCHANGED <<uriVars, parseVars, callVars, element, past>>

\* indexing a view behind its last byte is undefined: the read returns the byte
\* that lies there, or the library's precondition check ends the program
CallRegularName ==
    /\ \/ \E after \in (IF ReadsPastEnd(element) THEN [1..2 -> NameAlphabet \cup {NUL}]
                                                 ELSE {<<>>}) :
            /\ past' = after
            /\ verdict' = [fn |-> "is_regular_name", value |-> is_regular_name(element, after)]
       \/ /\ ReadsPastEnd(element)
          /\ past' = <<>>
          /\ verdict' = [fn |-> "is_regular_name aborted", value |-> FALSE]
    /\ UNCHANGED <<uriVars, parseVars, callVars, element>>

NextElements ==
    \/ CallDecimalOctet
    \/ CallIPv4
    \/ CallRegularName

SpecElements == InitElements /\ [][NextElements]_vars

\* ================================================================== claims
Parsed == outcome = "NoError"

\* the path as the input writes it: the argument of tryParsePath up to '?' or '#'
PathAsWritten ==
    LET t == Text(rawPath)
        pos == FindFirstOf(t, {"?", "#"})
    IN  IF pos = NPOS THEN t ELSE SubSeq(t, 1, pos)

\* C1: whenever the path as written in the input (right after the authority, or
\* at the start of the input when there is none) begins with '/',
\* is_absolute_path() is true after parsing.
C1_AbsoluteWhenPathBeginsWithSlash ==
    (Parsed /\ rawPath.len > 0 /\ Text(rawPath)[1] = "/") => isAbsolutePath

\* a non-empty text with none of the structural delimiters the parser looks for
Plain(t) ==
    t # <<>> /\ \A k \in 1..Len(t) : t[k] \notin {":", "/", "?", "#", "@", "&", "=", "[", "]"}

\* C2: an input <scheme>:<user>@<host> without "//" parses to exactly that scheme,
\* user and host, with no path, no query and no fragment.
C2_SchemeUserHostForm ==
    Parsed =>
        \A i, j \in 1..Len(uri_) :
            LET s == SubSeq(uri_, 1, i - 1)
                u == SubSeq(uri_, i + 1, j - 1)
                h == SubSeq(uri_, j + 1, Len(uri_))
            IN  (i < j /\ uri_[i] = ":" /\ uri_[j] = "@" /\ Plain(s) /\ Plain(u) /\ Plain(h))
                    => /\ scheme = s /\ user = u /\ host = h
                       /\ path = None /\ queryLine = None /\ fragment = None

\* C3: when an authority is followed by a path, path() is the path text with its
\* leading '/' (so has_path() holds for an authority followed by a lone '/').
C3_PathKeepsLeadingSlash ==
    (Parsed /\ hasAuthority /\ rawPath.len > 0) => (hasPath /\ path = PathAsWritten)

\* C4: after a successful parse, an empty host means an empty port and an empty user.
C4_EmptyHostMeansNoPortNoUser ==
    (Parsed /\ host_.len = 0) => (port_.len = 0 /\ user_.len = 0)

SchemeEdited ==
    IF prevScheme # None
    THEN newScheme \o SubSeq(prevUri, Len(prevScheme) + 1, Len(prevUri))
    ELSE newScheme \o <<":">> \o prevUri

\* C6: set_scheme(new) on a parsed URI replaces the leading scheme text by new, or
\* prepends new and ':' when there was no scheme; scheme() then returns new.
C6_SetSchemeEditsText ==
    (Parsed /\ nSets = 1 /\ prevUri # <<>> /\ lastOp \in {"setScheme", "setScheme threw"})
        => (string = SchemeEdited /\ scheme = newScheme)

\* C7: after clear() every accessor is absent, port() and string() are empty and
\* is_absolute_path() is false, as for a default-constructed URI.
C7_ClearResetsEverything ==
    lastOp = "clear" =>
        /\ scheme = None /\ user = None /\ host = None /\ path = None
        /\ queryLine = None /\ queries = None /\ fragment = None
        /\ port = <<>> /\ string = <<>>
        /\ isAbsolutePath = FALSE

SegmentTexts == [k \in 1..Len(pathSegments_) |-> Text(pathSegments_[k])]

\* C8: after a successful parse the path segments, concatenated in order, are
\* exactly the stored path text, and an empty path has no segments.
C8_SegmentsRebuildPath ==
    Parsed => /\ Concat(SegmentTexts) = Text(path_)
              /\ (path_.len = 0 => pathSegments_ = <<>>)

\* a path of several segments, the last one without a separator, was parsed
C8_Witness ==
    /\ Parsed
    /\ Len(pathSegments_) >= 2
    /\ Text(pathSegments_[1])[pathSegments_[1].len] = "/"
    /\ Text(pathSegments_[Len(pathSegments_)])[pathSegments_[Len(pathSegments_)].len] # "/"

AsciiDigits == {"0", "1", "2", "3", "4", "5", "6", "7", "8", "9"}

RECURSIVE DecimalValue(_)
DecimalValue(t) ==
    IF t = <<>> THEN 0
    ELSE 10 * DecimalValue(SubSeq(t, 1, Len(t) - 1)) + DigitValue(t[Len(t)])

\* 1 to 3 digits, no leading zero except "0" itself, value at most 255
DecimalOctet(t) ==
    /\ Len(t) \in 1..3
    /\ \A k \in 1..Len(t) : t[k] \in AsciiDigits
    /\ (Len(t) > 1 => t[1] # "0")
    /\ DecimalValue(t) <= 255

\* C9: is_decimal_octet(s) is true iff s is 1 to 3 digits without a leading zero
\* (other than "0" itself) of value 0..255.
C9_DecimalOctet ==
    verdict.fn = "is_decimal_octet" => (verdict.value <=> DecimalOctet(element))

\* the pieces of t between its dots
RECURSIVE DotPieces(_)
DotPieces(t) ==
    LET pos == Find(t, <<".">>, 0)
    IN  IF pos = NPOS THEN <<t>>
        ELSE <<SubSeq(t, 1, pos)>> \o DotPieces(SubSeq(t, pos + 2, Len(t)))

DottedQuad(t) ==
    LET pieces == DotPieces(t)
    IN  Len(pieces) = 4 /\ \A k \in 1..4 : DecimalOctet(pieces[k])

\* C10: is_IPv4(s) is true iff s is exactly four decimal octets separated by single
\* dots, with nothing before, between or after them.
C10_IPv4 ==
    verdict.fn = "is_IPv4" => (verdict.value <=> DottedQuad(element))

\* every byte is unreserved, a sub-delim, or part of a '%' with two hex digits in t
RECURSIVE RegularName(_)
RegularName(t) ==
    \/ t = <<>>
    \/ /\ is_unreserved(t[1]) \/ is_subdelimiter(t[1])
       /\ RegularName(Tail(t))
    \/ /\ Len(t) >= 3 /\ t[1] = "%" /\ is_hex_digit(t[2]) /\ is_hex_digit(t[3])
       /\ RegularName(SubSeq(t, 4, Len(t)))

\* C11: is_regular_name(s) is true iff every byte of s is unreserved, a sub-delim
\* or part of a '%' followed inside s by two hex digits; the answer depends on
\* the bytes of s only.
C11_RegularName ==
    /\ verdict.fn # "is_regular_name aborted"
    /\ verdict.fn = "is_regular_name" => (verdict.value <=> RegularName(element))

\* the pieces of t between the occurrences of the byte sep, empty pieces kept;
\* an empty t has no piece
RECURSIVE Pieces(_, _)
Pieces(t, sep) ==
    IF t = <<>> THEN <<>>
    ELSE LET pos == Find(t, sep, 0)
         IN  IF pos = NPOS THEN <<t>>
             ELSE IF pos + 1 = Len(t) THEN <<SubSeq(t, 1, pos), <<>>>>
                  ELSE <<SubSeq(t, 1, pos)>> \o Pieces(SubSeq(t, pos + 2, Len(t)), sep)

PieceWithoutEqual(t) ==
    \E i \in DOMAIN Pieces(t, <<"&">>) : Find(Pieces(t, <<"&">>)[i], <<"=">>, 0) = NPOS

\* C12: the only parse failures are MalformedUser and MalformedQuery: the program
\* is never ended inside parse(), MalformedUser is raised only when '@' is the
\* first byte of the authority slice, and MalformedQuery only when some
\* '&'-separated piece of the query has no '='; every other input is parsed.
C12_OnlyMalformedFailures ==
    /\ outcome # "Aborted"
    /\ outcome = "MalformedUser" => Text(rawAuthority)[1] = "@"
    /\ outcome = "MalformedQuery" => PieceWithoutEqual(Text(queryLine_))

\* C13: when the Fragment step was reached, from CheckSeparator at a '#' or from
\* the Query step stopping at a '#', the fragment of the parsed value is exactly
\* the text after that '#' up to the end of the input.
C13_FragmentAfterHash ==
    (Parsed /\ hashAt # NPOS) => Text(fragment_) = SubSeq(uri_, hashAt + 2, Len(uri_))

\* the text of the authority the parser was given, as written in the input
AuthorityAsWritten ==
    LET t == Text(rawAuthority)
        pos == FindFirstOf(t, {"/", "?", "#"})
    IN  IF pos = NPOS THEN t ELSE SubSeq(t, 1, pos)

\* position of the first ']' of the authority
Closing == Find(AuthorityAsWritten, <<"]">>, 0)

\* the text after the first ']' and the byte that follows it
PortAsWritten == SubSeq(AuthorityAsWritten, Closing + 3, Len(AuthorityAsWritten))

\* the authority is '[...]' or '[...]:port', with no user part, where the port
\* holds no colon and no bracket
BracketedHost ==
    /\ rawAuthority.len > 0
    /\ AuthorityAsWritten # <<>>
    /\ AuthorityAsWritten[1] = "["
    /\ Find(AuthorityAsWritten, <<"@">>, 0) = NPOS
    /\ Closing # NPOS
    /\ \/ Closing + 1 = Len(AuthorityAsWritten)
       \/ /\ AuthorityAsWritten[Closing + 2] = ":"
          /\ FindFirstOf(PortAsWritten, {":", "[", "]"}) = NPOS

\* C14: when the host of the authority is a bracketed literal '[...]', with or
\* without ':port' after it, the host is the whole bracketed text and the port
\* is the text after ']:' (empty when no port follows); no colon inside the
\* brackets separates host and port.
C14_BracketedHost ==
    (Parsed /\ BracketedHost) =>
        /\ Text(host_) = SubSeq(AuthorityAsWritten, 1, Closing + 1)
        /\ Text(port_) = PortAsWritten

\* the Query step has run and raised no error
QueryAccepted == outcome \in {"Parsing", "NoError"} /\ queryLine_.len > 0

\* C15: the query text is split on '&' and every piece, an empty piece made by a
\* leading, doubled or trailing '&' included, contains '='; a query with a
\* piece that does not is refused with MalformedQuery and gives no value.
C15_EveryPieceHasEqual ==
    QueryAccepted => ~PieceWithoutEqual(Text(queryLine_))

\* C16: the loop of parse() terminates for every input: it runs no more
\* iterations than the input has bytes plus the number of parsing steps, and
\* when it is over either the cursor is empty or one of the two malformed
\* errors has been raised.
C16_ParseTerminates ==
    /\ iterations <= Len(uri_) + Cardinality(ParsingSteps)
    /\ outcome # "Parsing" =>
           (uriView.len = 0 \/ outcome \in {"MalformedUser", "MalformedQuery"})

====
